---- MODULE Spec2Model ----
(***************************************************************************)
(* A model of src/advanced-vector/vector.h: RawMemory<T>, an owner of one  *)
(* untyped allocation, and Vector<T>, which constructs and destroys the    *)
(* elements stored in it.                                                  *)
(*                                                                         *)
(* The heap is a map from addresses to allocations; an allocation is a     *)
(* sequence of slots, one per element the allocation has room for.  A slot *)
(* holds Raw (no object lives there), Moved (a live object that has been   *)
(* moved from) or the value of a live object.  Slot offset i of the source *)
(* is index i + 1 of the sequence.                                         *)
(***************************************************************************)
EXTENDS Integers, Sequences, FiniteSets, TLC

\* ------------------------------------------------------------------ bounds
\* Largest capacity an array is allowed to reach: where the program has one
\* array, and where it has two.
MaxCap == 4
MaxCapPair == 2
\* The same where calls may throw.
MaxCapF == 3
\* Element values are 0..MaxVal.
MaxVal == 1

\* ------------------------------------------------------------- the universe
\* The Vector objects of the program.
Vecs == {"a", "b"}
NoVec == "none"

\* A slot in which no object lives (memory as operator new returned it, or
\* after the destructor ran).
Raw == -2
\* A live object that was the source of a move.
Moved == -1
\* The value of a value-initialised T.
DefaultVal == 0
Val == 0 .. MaxVal

\* nullptr, and the addresses operator new can return: every Vector can own
\* one allocation and one operation holds at most one more (new_data or
\* rhs_copy).
NullPtr == 0
Addr == 1 .. (Cardinality(Vecs) + 1)

\* The element types the model instantiates Vector with, by the two traits
\* the source asks about.
ElemTypes ==
    { [nothrow_move |-> TRUE,  copyable |-> TRUE],
      [nothrow_move |-> FALSE, copyable |-> TRUE] }

VARIABLES
    T,            \* the element type's traits (fixed in a behaviour)
    heap,         \* Addr -> [alloc: BOOLEAN, slots: Seq(slot)]
    vecs,         \* Vecs -> [data_: [buffer_, capacity_], size_]
    constructed,  \* the Vector objects whose lifetime has begun and not ended
    last,         \* the name of the call that ran last
    self,         \* the array it was called on
    ret,          \* the offset of the element the iterator it returned refers to
    ub,           \* "none", or how a step with undefined behaviour ended
    pushed,       \* the values pushed and not yet popped (PushBack/PopBack runs)
    obs           \* what the last call was seen to do: the exception it threw
                  \* and the statement that threw it, the objects it left in
                  \* storage it released, the elements it move- and
                  \* copy-constructed into a new allocation

vars == <<T, heap, vecs, constructed, last, self, ret, ub, pushed, obs>>

\* ------------------------------------------------------------------- heap
FreeBlock == [alloc |-> FALSE, slots |-> <<>>]

Min(S) == CHOOSE m \in S : \A n \in S : m <= n

\* RawMemory::Allocate: nullptr for n = 0, else a fresh block of n raw slots.
\* The allocator hands out the lowest free address.
AllocateAddr(h, n) ==
    IF n = 0 THEN NullPtr ELSE Min({p \in Addr : ~h[p].alloc})

Allocate(h, n) ==
    LET p == AllocateAddr(h, n) IN
    IF p = NullPtr THEN h
    ELSE [h EXCEPT ![p] = [alloc |-> TRUE, slots |-> [i \in 1 .. n |-> Raw]]]

\* A block that was released when it was not allocated.
DoubleFreed == [alloc |-> FALSE, slots |-> <<>>, twice |-> TRUE]

\* RawMemory::Deallocate: operator delete; a no-op on nullptr.
Deallocate(h, p) ==
    IF p = NullPtr THEN h
    ELSE IF h[p].alloc THEN [h EXCEPT ![p] = FreeBlock]
    ELSE [h EXCEPT ![p] = DoubleFreed]

Load(h, p, i) == h[p].slots[i + 1]

Store(h, p, i, x) == [h EXCEPT ![p].slots[i + 1] = x]

\* Placement new of a T with value x at slot i.
Construct(h, p, i, x) == Store(h, p, i, x)

\* std::uninitialized_value_construct_n
RECURSIVE UninitValueConstructN(_, _, _, _)
UninitValueConstructN(h, p, off, n) ==
    IF n = 0 THEN h
    ELSE UninitValueConstructN(Construct(h, p, off, DefaultVal), p, off + 1, n - 1)

\* std::uninitialized_copy_n
RECURSIVE UninitCopyN(_, _, _, _, _, _)
UninitCopyN(h, src, soff, n, dst, doff) ==
    IF n = 0 THEN h
    ELSE UninitCopyN(Construct(h, dst, doff, Load(h, src, soff)),
                     src, soff + 1, n - 1, dst, doff + 1)

\* std::uninitialized_move_n: the source objects stay alive, moved from.
RECURSIVE UninitMoveN(_, _, _, _, _, _)
UninitMoveN(h, src, soff, n, dst, doff) ==
    IF n = 0 THEN h
    ELSE UninitMoveN(Store(Construct(h, dst, doff, Load(h, src, soff)),
                           src, soff, Moved),
                     src, soff + 1, n - 1, dst, doff + 1)

\* Mutant of UseMove: every reallocation moves.
UseMoveAlways(t) == TRUE

\* Mutant of UseMove: a type that cannot be copied is not moved either.
UseMoveNothrowOnly(t) == t.nothrow_move

\* The if constexpr of every reallocation: move when T's move constructor
\* cannot throw or T cannot be copied, copy otherwise.
UseMove(t) == t.nothrow_move \/ ~t.copyable

TransferN(t, h, src, soff, n, dst, doff) ==
    IF UseMove(t) THEN UninitMoveN(h, src, soff, n, dst, doff)
    ELSE UninitCopyN(h, src, soff, n, dst, doff)

\* std::destroy_n and Vector::DestroyN
RECURSIVE DestroyN(_, _, _, _)
DestroyN(h, p, off, n) ==
    IF n = 0 THEN h
    ELSE DestroyN(Store(h, p, off, Raw), p, off + 1, n - 1)

\* Move assignment slot[to] = std::move(slot[from]).
MoveAssignElem(h, p, to, from) == Store(Store(h, p, to, Load(h, p, from)), p, from, Moved)

\* Mutant of MoveRange: the loop ends one element early.
RECURSIVE MoveRangeStopsEarly(_, _, _, _, _)
MoveRangeStopsEarly(h, p, first, lst, dfirst) ==
    IF first + 1 >= lst THEN h
    ELSE MoveRangeStopsEarly(MoveAssignElem(h, p, dfirst, first),
                             p, first + 1, lst, dfirst + 1)

\* std::move(first, last, d_first) inside one allocation, front to back.
RECURSIVE MoveRange(_, _, _, _, _)
MoveRange(h, p, first, lst, dfirst) ==
    IF first >= lst THEN h
    ELSE MoveRange(MoveAssignElem(h, p, dfirst, first), p, first + 1, lst, dfirst + 1)

\* Mutant of MoveBackward: the overlapping range is moved front to back.
RECURSIVE MoveBackwardFrontFirst(_, _, _, _, _)
MoveBackwardFrontFirst(h, p, first, lst, dlast) ==
    IF first >= lst THEN h
    ELSE MoveBackwardFrontFirst(MoveAssignElem(h, p, dlast - (lst - first), first),
                                p, first + 1, lst, dlast)

\* std::move_backward(first, last, d_last) inside one allocation, back to front.
RECURSIVE MoveBackward(_, _, _, _, _)
MoveBackward(h, p, first, lst, dlast) ==
    IF first >= lst THEN h
    ELSE MoveBackward(MoveAssignElem(h, p, dlast - 1, lst - 1), p, first, lst - 1, dlast - 1)

\* -------------------------------------------------------------- RawMemory
\* RawMemory(): buffer_ = nullptr, capacity_ = 0.
RawMemoryDefault == [buffer_ |-> NullPtr, capacity_ |-> 0]

\* RawMemory(size_t capacity)
RawMemoryOf(h, n) == [buffer_ |-> AllocateAddr(h, n), capacity_ |-> n]

\* RawMemory::Swap: buffer_ and capacity_ exchanged.
RawMemorySwap(this, other) == [this |-> other, other |-> this]

\* Mutant of RawMemoryMove: the pointer is copied and the source keeps it.
RawMemoryMoveKeepsSource(other) == [this |-> other, other |-> other]

\* RawMemory(RawMemory&& other): a default RawMemory swapped with other.
RawMemoryMove(other) == RawMemorySwap(RawMemoryDefault, other)

\* Vector(): data_ default, size_ = 0.
VectorDefault == [data_ |-> RawMemoryDefault, size_ |-> 0]

Capacity(this) == this.data_.capacity_

Size(this) == this.size_

\* Mutant of GrowCap: the capacity grows by one slot.
GrowCapByOne(this) == Capacity(this) + 1

\* The growth policy of PushBack, EmplaceBack and Emplace.
GrowCap(this) == IF Capacity(this) = 0 THEN 1 ELSE Capacity(this) * 2

\* ----------------------------------------------------------------- Vector
\* The methods are operators from the heap and the objects they touch to the
\* heap and the objects afterwards.

\* explicit Vector(size_t size)
VectorSized(h, n) ==
    LET d == RawMemoryOf(h, n) IN
    [this |-> [data_ |-> d, size_ |-> n],
     heap |-> UninitValueConstructN(Allocate(h, n), d.buffer_, 0, n)]

\* Mutant of VectorCopy: the members are copied, the elements are not.
VectorCopyShallow(h, other) == [this |-> other, heap |-> h]

\* Vector(const Vector& other): capacity other.size_, every element copied.
VectorCopy(h, other) ==
    LET d == RawMemoryOf(h, other.size_) IN
    [this |-> [data_ |-> d, size_ |-> other.size_],
     heap |-> UninitCopyN(Allocate(h, other.size_), other.data_.buffer_, 0,
                          other.size_, d.buffer_, 0)]

\* Vector(Vector&& other): RawMemory(RawMemory&&) swaps other.data_ into a
\* default RawMemory; size_ is taken and other.size_ set to 0.
VectorMove(h, other) ==
    LET d == RawMemoryMove(other.data_) IN
    [this  |-> [data_ |-> d.this, size_ |-> other.size_],
     other |-> [data_ |-> d.other, size_ |-> 0],
     heap  |-> h]

\* ~Vector() and then ~RawMemory(): destroy size_ elements, release the block.
VectorDtor(h, this) ==
    Deallocate(DestroyN(h, this.data_.buffer_, 0, this.size_), this.data_.buffer_)

\* Mutant of VectorReserve: the early return misses new_capacity == Capacity().
VectorReserveAtEqual(t, h, this, new_capacity) ==
    IF new_capacity < Capacity(this) THEN [this |-> this, heap |-> h]
    ELSE
        LET new_data == RawMemoryOf(h, new_capacity)
            old      == this.data_
            h1 == Allocate(h, new_capacity)
            h2 == TransferN(t, h1, old.buffer_, 0, this.size_, new_data.buffer_, 0)
            h3 == DestroyN(h2, old.buffer_, 0, this.size_)
        IN  [this |-> [this EXCEPT !.data_ = new_data],
             heap |-> Deallocate(h3, old.buffer_)]

\* Reserve
VectorReserve(t, h, this, new_capacity) ==
    IF new_capacity <= Capacity(this) THEN [this |-> this, heap |-> h]
    ELSE
        LET new_data == RawMemoryOf(h, new_capacity)
            old      == this.data_
            h1 == Allocate(h, new_capacity)
            h2 == TransferN(t, h1, old.buffer_, 0, this.size_, new_data.buffer_, 0)
            h3 == DestroyN(h2, old.buffer_, 0, this.size_)
        IN  \* data_.Swap(new_data); new_data's destructor releases the old block
            [this |-> [this EXCEPT !.data_ = new_data],
             heap |-> Deallocate(h3, old.buffer_)]

\* Mutant of VectorResize: shrinking sets size_ and destroys nothing.
VectorResizeNoDestroy(t, h, this, new_size) ==
    IF new_size < this.size_
    THEN [this |-> [this EXCEPT !.size_ = new_size], heap |-> h]
    ELSE
        LET r == IF Capacity(this) < new_size
                 THEN VectorReserve(t, h, this, new_size)
                 ELSE [this |-> this, heap |-> h]
        IN  [this |-> [r.this EXCEPT !.size_ = new_size],
             heap |-> UninitValueConstructN(r.heap, r.this.data_.buffer_,
                                            this.size_, new_size - this.size_)]

\* Resize
VectorResize(t, h, this, new_size) ==
    IF new_size < this.size_
    THEN [this |-> [this EXCEPT !.size_ = new_size],
          heap |-> DestroyN(h, this.data_.buffer_, new_size, this.size_ - new_size)]
    ELSE
        LET r == IF Capacity(this) < new_size
                 THEN VectorReserve(t, h, this, new_size)
                 ELSE [this |-> this, heap |-> h]
        IN  [this |-> [r.this EXCEPT !.size_ = new_size],
             heap |-> UninitValueConstructN(r.heap, r.this.data_.buffer_,
                                            this.size_, new_size - this.size_)]

\* PushBack(const T& value)
VectorPushBackCopy(t, h, this, value) ==
    IF this.size_ = Capacity(this)
    THEN
        LET new_data == RawMemoryOf(h, GrowCap(this))
            old      == this.data_
            h1 == Allocate(h, GrowCap(this))
            h2 == Construct(h1, new_data.buffer_, this.size_, value)
            h3 == TransferN(t, h2, old.buffer_, 0, this.size_, new_data.buffer_, 0)
            h4 == DestroyN(h3, old.buffer_, 0, this.size_)
        IN  [this |-> [data_ |-> new_data, size_ |-> this.size_ + 1],
             heap |-> Deallocate(h4, old.buffer_)]
    ELSE
        [this |-> [this EXCEPT !.size_ = this.size_ + 1],
         heap |-> Construct(h, this.data_.buffer_, this.size_, value)]

\* PushBack(T&& value): as above, the new element move-constructed from the
\* caller's object.
VectorPushBackMove(t, h, this, value) ==
    IF this.size_ = Capacity(this)
    THEN
        LET new_data == RawMemoryOf(h, GrowCap(this))
            old      == this.data_
            h1 == Allocate(h, GrowCap(this))
            h2 == Construct(h1, new_data.buffer_, this.size_, value)
            h3 == TransferN(t, h2, old.buffer_, 0, this.size_, new_data.buffer_, 0)
            h4 == DestroyN(h3, old.buffer_, 0, this.size_)
        IN  [this |-> [data_ |-> new_data, size_ |-> this.size_ + 1],
             heap |-> Deallocate(h4, old.buffer_)]
    ELSE
        [this |-> [this EXCEPT !.size_ = this.size_ + 1],
         heap |-> Construct(h, this.data_.buffer_, this.size_, value)]

\* EmplaceBack(Args&&...): returns data_[size_++], here the offset of it.
VectorEmplaceBack(t, h, this, value) ==
    IF this.size_ = Capacity(this)
    THEN
        LET new_data == RawMemoryOf(h, GrowCap(this))
            old      == this.data_
            h1 == Allocate(h, GrowCap(this))
            h2 == Construct(h1, new_data.buffer_, this.size_, value)
            h3 == TransferN(t, h2, old.buffer_, 0, this.size_, new_data.buffer_, 0)
            h4 == DestroyN(h3, old.buffer_, 0, this.size_)
        IN  [this |-> [data_ |-> new_data, size_ |-> this.size_ + 1],
             heap |-> Deallocate(h4, old.buffer_),
             ret  |-> this.size_]
    ELSE
        [this |-> [this EXCEPT !.size_ = this.size_ + 1],
         heap |-> Construct(h, this.data_.buffer_, this.size_, value),
         ret  |-> this.size_]

\* Emplace(const_iterator pos, Args&&...), pos = begin() + k: returns the
\* offset of the iterator it returns.
VectorEmplace(t, h, this, k, value) ==
    IF k = this.size_
    THEN \* iter == end(): EmplaceBack, return end() - 1
        LET r == VectorEmplaceBack(t, h, this, value)
        IN  [this |-> r.this, heap |-> r.heap, ret |-> r.this.size_ - 1]
    ELSE IF Capacity(this) = this.size_
    THEN
        LET new_data == RawMemoryOf(h, GrowCap(this))
            old      == this.data_
            distance == k
            total_distance == this.size_
            h1 == Allocate(h, GrowCap(this))
            h2 == Construct(h1, new_data.buffer_, distance, value)
            h3 == TransferN(t, h2, old.buffer_, 0, distance, new_data.buffer_, 0)
            h4 == TransferN(t, h3, old.buffer_, distance, total_distance - distance,
                            new_data.buffer_, distance + 1)
            h5 == DestroyN(h4, old.buffer_, 0, this.size_)
        IN  [this |-> [data_ |-> new_data, size_ |-> this.size_ + 1],
             heap |-> Deallocate(h5, old.buffer_),
             ret  |-> distance]
    ELSE
        LET p  == this.data_.buffer_
            \* T tmp_elem(args...); new (end()) T(std::move(*(end() - 1)))
            h1 == Store(Construct(h, p, this.size_, Load(h, p, this.size_ - 1)),
                        p, this.size_ - 1, Moved)
            h2 == MoveBackward(h1, p, k, this.size_ - 1, this.size_)
            \* *iter = std::move(tmp_elem)
            h3 == Store(h2, p, k, value)
        IN  [this |-> [this EXCEPT !.size_ = this.size_ + 1],
             heap |-> h3,
             ret  |-> k]

\* Insert(const_iterator pos, const T& value)
VectorInsertCopy(t, h, this, k, value) == VectorEmplace(t, h, this, k, value)

\* Insert(const_iterator pos, T&& value)
VectorInsertMove(t, h, this, k, value) == VectorEmplace(t, h, this, k, value)

\* Mutant of VectorErase: the shift starts at pos instead of pos + 1.
VectorEraseFromPos(h, this, k) ==
    LET p  == this.data_.buffer_
        h1 == MoveRange(h, p, k, this.size_, k)
        h2 == DestroyN(h1, p, this.size_ - 1, 1)
    IN  [this |-> [this EXCEPT !.size_ = this.size_ - 1], heap |-> h2, ret |-> k]

\* Erase(const_iterator pos), pos = begin() + k
VectorErase(h, this, k) ==
    LET p  == this.data_.buffer_
        h1 == MoveRange(h, p, k + 1, this.size_, k)
        h2 == DestroyN(h1, p, this.size_ - 1, 1)
    IN  [this |-> [this EXCEPT !.size_ = this.size_ - 1], heap |-> h2, ret |-> k]

\* Mutant of VectorPopBack: the element is destroyed and size_ stays.
VectorPopBackKeepsSize(h, this) ==
    [this |-> this,
     heap |-> DestroyN(h, this.data_.buffer_, this.size_ - 1, 1)]

\* PopBack
VectorPopBack(h, this) ==
    [this |-> [this EXCEPT !.size_ = this.size_ - 1],
     heap |-> DestroyN(h, this.data_.buffer_, this.size_ - 1, 1)]

\* Mutant of VectorPushBackAlias: the existing elements are transferred
\* before the new element is constructed from the argument.
VectorPushBackAliasTransferFirst(t, h, this, i) ==
    IF this.size_ = Capacity(this)
    THEN
        LET new_data == RawMemoryOf(h, GrowCap(this))
            old      == this.data_
            h1 == Allocate(h, GrowCap(this))
            h2 == TransferN(t, h1, old.buffer_, 0, this.size_, new_data.buffer_, 0)
            h3 == Construct(h2, new_data.buffer_, this.size_, Load(h2, old.buffer_, i))
            h4 == DestroyN(h3, old.buffer_, 0, this.size_)
        IN  [this |-> [data_ |-> new_data, size_ |-> this.size_ + 1],
             heap |-> Deallocate(h4, old.buffer_)]
    ELSE
        [this |-> [this EXCEPT !.size_ = this.size_ + 1],
         heap |-> Construct(h, this.data_.buffer_, this.size_,
                            Load(h, this.data_.buffer_, i))]

\* PushBack(const T& value) with value bound to (*this)[i]: the argument is
\* read where the code reads it, in new (...) T(value) at line 222 or 232.
VectorPushBackAlias(t, h, this, i) ==
    IF this.size_ = Capacity(this)
    THEN
        LET new_data == RawMemoryOf(h, GrowCap(this))
            old      == this.data_
            h1 == Allocate(h, GrowCap(this))
            h2 == Construct(h1, new_data.buffer_, this.size_, Load(h1, old.buffer_, i))
            h3 == TransferN(t, h2, old.buffer_, 0, this.size_, new_data.buffer_, 0)
            h4 == DestroyN(h3, old.buffer_, 0, this.size_)
        IN  [this |-> [data_ |-> new_data, size_ |-> this.size_ + 1],
             heap |-> Deallocate(h4, old.buffer_)]
    ELSE
        [this |-> [this EXCEPT !.size_ = this.size_ + 1],
         heap |-> Construct(h, this.data_.buffer_, this.size_,
                            Load(h, this.data_.buffer_, i))]

\* EmplaceBack(const T&) with the argument bound to (*this)[i], read at
\* line 259 or 269.
VectorEmplaceBackAlias(t, h, this, i) ==
    IF this.size_ = Capacity(this)
    THEN
        LET new_data == RawMemoryOf(h, GrowCap(this))
            old      == this.data_
            h1 == Allocate(h, GrowCap(this))
            h2 == Construct(h1, new_data.buffer_, this.size_, Load(h1, old.buffer_, i))
            h3 == TransferN(t, h2, old.buffer_, 0, this.size_, new_data.buffer_, 0)
            h4 == DestroyN(h3, old.buffer_, 0, this.size_)
        IN  [this |-> [data_ |-> new_data, size_ |-> this.size_ + 1],
             heap |-> Deallocate(h4, old.buffer_),
             ret  |-> this.size_]
    ELSE
        [this |-> [this EXCEPT !.size_ = this.size_ + 1],
         heap |-> Construct(h, this.data_.buffer_, this.size_,
                            Load(h, this.data_.buffer_, i)),
         ret  |-> this.size_]

\* Emplace(begin() + k, (*this)[i]) with an lvalue argument: it is read by
\* the construction of the new element (line 290) or of tmp_elem (line 319).
VectorEmplaceAlias(t, h, this, k, i) ==
    IF k = this.size_
    THEN
        LET r == VectorEmplaceBackAlias(t, h, this, i)
        IN  [this |-> r.this, heap |-> r.heap, ret |-> r.this.size_ - 1]
    ELSE IF Capacity(this) = this.size_
    THEN
        LET new_data == RawMemoryOf(h, GrowCap(this))
            old      == this.data_
            distance == k
            total_distance == this.size_
            h1 == Allocate(h, GrowCap(this))
            h2 == Construct(h1, new_data.buffer_, distance, Load(h1, old.buffer_, i))
            h3 == TransferN(t, h2, old.buffer_, 0, distance, new_data.buffer_, 0)
            h4 == TransferN(t, h3, old.buffer_, distance, total_distance - distance,
                            new_data.buffer_, distance + 1)
            h5 == DestroyN(h4, old.buffer_, 0, this.size_)
        IN  [this |-> [data_ |-> new_data, size_ |-> this.size_ + 1],
             heap |-> Deallocate(h5, old.buffer_),
             ret  |-> distance]
    ELSE
        LET p  == this.data_.buffer_
            tmp_elem == Load(h, p, i)
            h1 == Store(Construct(h, p, this.size_, Load(h, p, this.size_ - 1)),
                        p, this.size_ - 1, Moved)
            h2 == MoveBackward(h1, p, k, this.size_ - 1, this.size_)
            h3 == Store(h2, p, k, tmp_elem)
        IN  [this |-> [this EXCEPT !.size_ = this.size_ + 1],
             heap |-> h3,
             ret  |-> k]

\* Insert(begin() + k, (*this)[i]): Emplace(pos, value).
VectorInsertAlias(t, h, this, k, i) == VectorEmplaceAlias(t, h, this, k, i)

\* Swap and operator=(Vector&&) (this != &rhs): data_ and size_ exchanged.
VectorSwap(h, this, other) ==
    LET d == RawMemorySwap(this.data_, other.data_) IN
    [this  |-> [data_ |-> d.this, size_ |-> other.size_],
     other |-> [data_ |-> d.other, size_ |-> this.size_],
     heap  |-> h]

VectorMoveAssign(h, this, rhs) == VectorSwap(h, this, rhs)

\* data_[i] = rhs.data_[i] for i in [from, to): copy assignment, slot by slot.
RECURSIVE CopyAssignRange(_, _, _, _, _)
CopyAssignRange(h, src, dst, from, to) ==
    IF from >= to THEN h
    ELSE CopyAssignRange(Store(h, dst, from, Load(h, src, from)), src, dst, from + 1, to)

\* What reading a T at src + i yields: the object there, or, when no object
\* lives there or the address is outside the allocation, whatever the memory
\* holds (g).
LoadAny(h, src, i, g) ==
    IF i < Len(h[src].slots) /\ Load(h, src, i) # Raw THEN Load(h, src, i) ELSE g

\* Placement new at dst + i by pointer arithmetic: inside the allocation the
\* slot gets the object; outside, the store misses every slot of the block.
ConstructAny(h, dst, i, x) ==
    IF i < Len(h[dst].slots) THEN Construct(h, dst, i, x) ELSE h

\* std::uninitialized_copy_n over raw pointers (GetAddress() + offset), with
\* nothing keeping either range inside its allocation.
RECURSIVE UninitCopyNRaw(_, _, _, _, _, _, _)
UninitCopyNRaw(h, src, soff, n, dst, doff, g) ==
    IF n = 0 THEN h
    ELSE UninitCopyNRaw(ConstructAny(h, dst, doff, LoadAny(h, src, soff, g)),
                        src, soff + 1, n - 1, dst, doff + 1, g)

\* Whether that copy reads a slot holding no object, or reads or writes
\* outside an allocation: undefined behaviour.
RangeIsUB(h, src, soff, n, dst, doff) ==
    \E j \in 0 .. n - 1 :
        \/ soff + j >= Len(h[src].slots)
        \/ Load(h, src, soff + j) = Raw
        \/ doff + j >= Len(h[dst].slots)

\* operator=(const Vector& rhs) with this != &rhs.  g is what a read of
\* memory that holds no object yields.
VectorCopyAssign(h, this, rhs, g) ==
    IF rhs.size_ > Capacity(this)
    THEN \* Vector rhs_copy(rhs); Swap(rhs_copy); ~rhs_copy
        LET c == VectorCopy(h, rhs)
            s == VectorSwap(c.heap, this, c.this)
        IN  [this |-> s.this, heap |-> VectorDtor(s.heap, s.other), ub |-> FALSE]
    ELSE IF rhs.size_ <= this.size_
    THEN
        LET i  == rhs.size_
            h1 == CopyAssignRange(h, rhs.data_.buffer_, this.data_.buffer_, 0, rhs.size_)
            h2 == DestroyN(h1, this.data_.buffer_, i, this.size_ - rhs.size_)
        IN  [this |-> [this EXCEPT !.size_ = rhs.size_], heap |-> h2, ub |-> FALSE]
    ELSE
        LET i  == this.size_
            h1 == CopyAssignRange(h, rhs.data_.buffer_, this.data_.buffer_, 0, this.size_)
            h2 == UninitCopyNRaw(h1, rhs.data_.buffer_, i + 1, rhs.size_ - this.size_,
                                 this.data_.buffer_, i + 1, g)
        IN  [this |-> [this EXCEPT !.size_ = rhs.size_], heap |-> h2,
             ub   |-> RangeIsUB(h1, rhs.data_.buffer_, i + 1, rhs.size_ - this.size_,
                                this.data_.buffer_, i + 1)]

\* ------------------------------------------------------------- exceptions
\* What a call that returns no iterator and no reference, or throws, returns.
NoRet == -1

\* Where a call throws: at names the statement (operator new, the
\* construction of the new element, a transfer, ...) and k the number of
\* element operations of that statement that succeed before the one that
\* throws.
NoFault == [at |-> "none", k |-> 0]

Fault(at, k) == [at |-> at, k |-> k]

\* The objects alive in block p.
Live(h, p) ==
    IF p = NullPtr THEN 0
    ELSE Cardinality({i \in 1 .. Len(h[p].slots) : h[p].slots[i] # Raw})

\* The element constructions a transfer of n elements makes.
TransferStats(t, n) ==
    IF UseMove(t) THEN [moves |-> n, copies |-> 0] ELSE [moves |-> 0, copies |-> n]

\* A transfer whose element number k throws: std::uninitialized_move_n and
\* std::uninitialized_copy_n destroy the k objects they constructed and
\* rethrow.  The sources already moved from stay moved from.
TransferFailN(t, h, src, soff, k, dst, doff) ==
    DestroyN(TransferN(t, h, src, soff, k, dst, doff), dst, doff, k)

\* T's move constructor may throw unless it is declared not to; its copy
\* constructor, its other constructors and its assignments may throw.
MoveCanThrow(t) == ~t.nothrow_move

TransferCanThrow(t) == IF UseMove(t) THEN MoveCanThrow(t) ELSE TRUE

\* The throws of a transfer of n elements made by statement at.
TransferFaults(t, at, n) ==
    IF TransferCanThrow(t) THEN {Fault(at, k) : k \in 0 .. n - 1} ELSE {}

\* The call returned: what it did to the elements of a new allocation.
Returned(this, h, st) ==
    [this |-> this, heap |-> h,
     obs  |-> [exc |-> "none", leaked |-> 0, moves |-> st.moves, copies |-> st.copies]]

\* Mutant of Threw: the local buffer is not released when the call throws.
ThrewKeepsBlock(this, h, exc, p, st) ==
    [this |-> this, heap |-> h,
     obs  |-> [exc |-> exc, leaked |-> 0, moves |-> st.moves, copies |-> st.copies]]

\* The call threw exc during unwinding of which ~RawMemory released block p
\* (NullPtr: no local buffer existed).
Threw(this, h, exc, p, st) ==
    [this |-> this, heap |-> Deallocate(h, p),
     obs  |-> [exc |-> exc, leaked |-> Live(h, p), moves |-> st.moves, copies |-> st.copies]]

NoStats == [moves |-> 0, copies |-> 0]

\* Reserve, with the places it can throw: operator new (line 154) and the
\* transfer (lines 155-159).
ReserveFaults(t, this, new_capacity) ==
    {NoFault} \cup
    IF new_capacity <= Capacity(this) THEN {}
    ELSE {Fault("alloc", 0)} \cup
         TransferFaults(t, "transfer", this.size_)

VectorReserveF(t, h, this, new_capacity, f) ==
    IF new_capacity <= Capacity(this) THEN Returned(this, h, NoStats)
    ELSE IF f.at = "alloc" THEN Threw(this, h, "bad_alloc", NullPtr, NoStats)
    ELSE
        LET new_data == RawMemoryOf(h, new_capacity)
            old      == this.data_
            h1 == Allocate(h, new_capacity)
        IN  IF f.at = "transfer"
            THEN Threw(this,
                       TransferFailN(t, h1, old.buffer_, 0, f.k, new_data.buffer_, 0),
                       "T", new_data.buffer_, TransferStats(t, f.k))
            ELSE
                LET h2 == TransferN(t, h1, old.buffer_, 0, this.size_, new_data.buffer_, 0)
                    h3 == DestroyN(h2, old.buffer_, 0, this.size_)
                IN  Returned([this EXCEPT !.data_ = new_data],
                             Deallocate(h3, old.buffer_),
                             TransferStats(t, this.size_))

\* A value construction of n objects whose number k throws:
\* std::uninitialized_value_construct_n destroys the k it constructed.
ValueConstructFailN(h, p, off, k) ==
    DestroyN(UninitValueConstructN(h, p, off, k), p, off, k)

\* Resize: Reserve's throws (line 213) and those of T() (line 215).
ResizeFaults(t, this, new_size) ==
    {NoFault} \cup
    IF new_size < this.size_ THEN {}
    ELSE (ReserveFaults(t, this, new_size) \ {NoFault}) \cup
         {Fault("fill", k) : k \in 0 .. new_size - this.size_ - 1}

VectorResizeF(t, h, this, new_size, f) ==
    IF new_size < this.size_
    THEN Returned([this EXCEPT !.size_ = new_size],
                  DestroyN(h, this.data_.buffer_, new_size, this.size_ - new_size),
                  NoStats)
    ELSE
        LET r == IF Capacity(this) < new_size
                 THEN VectorReserveF(t, h, this, new_size, f)
                 ELSE Returned(this, h, NoStats)
        IN  IF r.obs.exc # "none" THEN r
            ELSE IF f.at = "fill"
            THEN [this |-> r.this,
                  heap |-> ValueConstructFailN(r.heap, r.this.data_.buffer_,
                                               this.size_, f.k),
                  obs  |-> [r.obs EXCEPT !.exc = "T"]]
            ELSE [this |-> [r.this EXCEPT !.size_ = new_size],
                  heap |-> UninitValueConstructN(r.heap, r.this.data_.buffer_,
                                                 this.size_, new_size - this.size_),
                  obs  |-> r.obs]

\* PushBack(const T&), PushBack(T&&) and EmplaceBack are the same statements
\* around three constructions of the new element.  They can throw at operator
\* new, at the construction of the new element (new_can_throw) and in the
\* transfer.
AppendFaults(t, this, new_can_throw) ==
    {NoFault} \cup
    (IF new_can_throw THEN {Fault("new", 0)} ELSE {}) \cup
    IF this.size_ = Capacity(this)
    THEN {Fault("alloc", 0)} \cup
         TransferFaults(t, "transfer", this.size_)
    ELSE {}

VectorAppendF(t, h, this, value, f) ==
    IF this.size_ = Capacity(this)
    THEN
        IF f.at = "alloc" THEN Threw(this, h, "bad_alloc", NullPtr, NoStats)
        ELSE
            LET new_data == RawMemoryOf(h, GrowCap(this))
                old      == this.data_
                h1 == Allocate(h, GrowCap(this))
            IN  IF f.at = "new" THEN Threw(this, h1, "T", new_data.buffer_, NoStats)
                ELSE
                    LET h2 == Construct(h1, new_data.buffer_, this.size_, value)
                    IN  IF f.at = "transfer"
                        THEN \* no handler: unwinding runs ~RawMemory only
                            Threw(this,
                                  TransferFailN(t, h2, old.buffer_, 0, f.k,
                                                new_data.buffer_, 0),
                                  "T", new_data.buffer_, TransferStats(t, f.k))
                        ELSE
                            LET h3 == TransferN(t, h2, old.buffer_, 0, this.size_,
                                                new_data.buffer_, 0)
                                h4 == DestroyN(h3, old.buffer_, 0, this.size_)
                            IN  Returned([data_ |-> new_data, size_ |-> this.size_ + 1],
                                         Deallocate(h4, old.buffer_),
                                         TransferStats(t, this.size_))
    ELSE
        IF f.at = "new" THEN Threw(this, h, "T", NullPtr, NoStats)
        ELSE Returned([this EXCEPT !.size_ = this.size_ + 1],
                      Construct(h, this.data_.buffer_, this.size_, value),
                      NoStats)

\* PushBack(const T& value): the new element is copy-constructed.
VectorPushBackCopyF(t, h, this, value, f) == VectorAppendF(t, h, this, value, f)

\* PushBack(T&& value): the new element is move-constructed.
VectorPushBackMoveF(t, h, this, value, f) == VectorAppendF(t, h, this, value, f)

\* EmplaceBack(Args&&...): the new element is constructed from the arguments.
VectorEmplaceBackF(t, h, this, value, f) == VectorAppendF(t, h, this, value, f)

\* The handler of the inner try block of Emplace (lines 304-308): the prefix
\* is destroyed in the new buffer.
EmplaceInnerCatch(h, nb, distance) == DestroyN(h, nb, 0, distance)

\* Mutant of EmplaceOuterCatch: the handler destroys nothing.
EmplaceOuterCatchNothing(h, nb, distance) == h

\* The handler of the outer try block of Emplace (lines 310-313): the new
\* element is destroyed in the new buffer.
EmplaceOuterCatch(h, nb, distance) == DestroyN(h, nb, distance, 1)

\* Emplace at begin() + k.  With growth it can throw at operator new, at the
\* construction of the new element and in either transfer; in place, at the
\* construction of the temporary, at the move construction of the last
\* element into the slot at end(), in a move assignment of the shift and in
\* the move assignment of the temporary.
EmplaceFaults(t, this, k, new_can_throw) ==
    IF k = this.size_ THEN AppendFaults(t, this, new_can_throw)
    ELSE IF Capacity(this) = this.size_
    THEN {NoFault, Fault("alloc", 0)} \cup
         (IF new_can_throw THEN {Fault("new", 0)} ELSE {}) \cup
         TransferFaults(t, "prefix", k) \cup
         TransferFaults(t, "suffix", this.size_ - k)
    ELSE {NoFault, Fault("assign", 0)} \cup
         (IF new_can_throw THEN {Fault("new", 0)} ELSE {}) \cup
         (IF MoveCanThrow(t) THEN {Fault("last", 0)} ELSE {}) \cup
         {Fault("shift", j) : j \in 0 .. this.size_ - k - 2}

VectorEmplaceF(t, h, this, k, value, f) ==
    IF k = this.size_
    THEN \* iter == end(): EmplaceBack, return end() - 1
        LET r == VectorEmplaceBackF(t, h, this, value, f)
        IN  [this |-> r.this, heap |-> r.heap, obs |-> r.obs, ret |-> r.this.size_ - 1]
    ELSE IF Capacity(this) = this.size_
    THEN
        IF f.at = "alloc"
        THEN Threw(this, h, "bad_alloc", NullPtr, NoStats) @@ [ret |-> NoRet]
        ELSE
            LET new_data == RawMemoryOf(h, GrowCap(this))
                old      == this.data_
                nb       == new_data.buffer_
                distance == k
                total_distance == this.size_
                h1 == Allocate(h, GrowCap(this))
                h2 == Construct(h1, nb, distance, value)
                h3 == TransferN(t, h2, old.buffer_, 0, distance, nb, 0)
            IN  IF f.at = "new"
                THEN Threw(this, h1, "T", nb, NoStats) @@ [ret |-> NoRet]
                ELSE IF f.at = "prefix"
                THEN \* outer handler: destroy_n(new_data + distance, 1); throw
                    Threw(this,
                          EmplaceOuterCatch(
                              TransferFailN(t, h2, old.buffer_, 0, f.k, nb, 0),
                              nb, distance),
                          "T", nb, TransferStats(t, f.k)) @@ [ret |-> NoRet]
                ELSE IF f.at = "suffix"
                THEN \* inner handler: destroy_n(new_data, distance); throw; then
                     \* the outer handler
                    LET h4 == TransferFailN(t, h3, old.buffer_, distance, f.k,
                                            nb, distance + 1)
                        h5 == EmplaceInnerCatch(h4, nb, distance)
                        h6 == EmplaceOuterCatch(h5, nb, distance)
                    IN  Threw(this, h6, "T", nb, TransferStats(t, distance + f.k))
                            @@ [ret |-> NoRet]
                ELSE
                    LET h4 == TransferN(t, h3, old.buffer_, distance,
                                        total_distance - distance, nb, distance + 1)
                        h5 == DestroyN(h4, old.buffer_, 0, this.size_)
                    IN  Returned([data_ |-> new_data, size_ |-> this.size_ + 1],
                                 Deallocate(h5, old.buffer_),
                                 TransferStats(t, this.size_)) @@ [ret |-> distance]
    ELSE
        LET p  == this.data_.buffer_
            \* new (end()) T(std::move(*(end() - 1)))
            h1 == Store(Construct(h, p, this.size_, Load(h, p, this.size_ - 1)),
                        p, this.size_ - 1, Moved)
        IN  IF f.at \in {"new", "last"}
            THEN Threw(this, h, "T", NullPtr, NoStats) @@ [ret |-> NoRet]
            ELSE IF f.at = "shift"
            THEN \* f.k elements were moved, from the back; size_ is as it was
                Threw(this,
                      MoveBackward(h1, p, this.size_ - 1 - f.k, this.size_ - 1, this.size_),
                      "T", NullPtr, NoStats) @@ [ret |-> NoRet]
            ELSE
                LET h2 == MoveBackward(h1, p, k, this.size_ - 1, this.size_)
                IN  IF f.at = "assign"
                    THEN Threw(this, h2, "T", NullPtr, NoStats) @@ [ret |-> NoRet]
                    ELSE Returned([this EXCEPT !.size_ = this.size_ + 1],
                                  Store(h2, p, k, value), NoStats) @@ [ret |-> k]

\* Insert(const_iterator pos, const T& value)
VectorInsertCopyF(t, h, this, k, value, f) == VectorEmplaceF(t, h, this, k, value, f)

\* Insert(const_iterator pos, T&& value)
VectorInsertMoveF(t, h, this, k, value, f) == VectorEmplaceF(t, h, this, k, value, f)

\* std::uninitialized_copy_n whose element number k throws: the k copies are
\* destroyed.
CopyFailN(h, src, soff, k, dst, doff) ==
    DestroyN(UninitCopyN(h, src, soff, k, dst, doff), dst, doff, k)

\* explicit Vector(size_t size): operator new (none for size 0) and T() can
\* throw; the member data_ is then destroyed and no Vector exists.
SizedFaults(n) ==
    {NoFault} \cup (IF n = 0 THEN {} ELSE {Fault("alloc", 0)}) \cup
    {Fault("fill", k) : k \in 0 .. n - 1}

VectorSizedF(h, n, f) ==
    IF f.at = "alloc" THEN Threw(VectorDefault, h, "bad_alloc", NullPtr, NoStats)
    ELSE
        LET d  == RawMemoryOf(h, n)
            h1 == Allocate(h, n)
        IN  IF f.at = "fill"
            THEN Threw(VectorDefault, ValueConstructFailN(h1, d.buffer_, 0, f.k),
                       "T", d.buffer_, NoStats)
            ELSE Returned([data_ |-> d, size_ |-> n],
                          UninitValueConstructN(h1, d.buffer_, 0, n), NoStats)

\* Vector(const Vector& other): operator new and T's copy constructor can
\* throw.
CopyFaults(other) ==
    {NoFault} \cup (IF other.size_ = 0 THEN {} ELSE {Fault("alloc", 0)}) \cup
    {Fault("copy", k) : k \in 0 .. other.size_ - 1}

VectorCopyF(h, other, f) ==
    IF f.at = "alloc" THEN Threw(VectorDefault, h, "bad_alloc", NullPtr, NoStats)
    ELSE
        LET d  == RawMemoryOf(h, other.size_)
            h1 == Allocate(h, other.size_)
        IN  IF f.at = "copy"
            THEN Threw(VectorDefault,
                       CopyFailN(h1, other.data_.buffer_, 0, f.k, d.buffer_, 0),
                       "T", d.buffer_, [moves |-> 0, copies |-> f.k])
            ELSE Returned([data_ |-> d, size_ |-> other.size_],
                          UninitCopyN(h1, other.data_.buffer_, 0, other.size_,
                                      d.buffer_, 0),
                          [moves |-> 0, copies |-> other.size_])

\* Mutant of VectorCopyAssignF: the elements are destroyed before rhs is
\* copied.
VectorCopyAssignClearsFirst(h, this, rhs, f) ==
    LET h0 == DestroyN(h, this.data_.buffer_, 0, this.size_)
        c  == VectorCopyF(h0, rhs, f)
    IN  IF c.obs.exc # "none"
        THEN [this |-> [this EXCEPT !.size_ = 0], heap |-> c.heap, obs |-> c.obs]
        ELSE
            LET s == VectorSwap(c.heap, [this EXCEPT !.size_ = 0], c.this)
            IN  [this |-> s.this, heap |-> VectorDtor(s.heap, s.other), obs |-> c.obs]

\* operator=(const Vector& rhs) with rhs.size_ > Capacity(): Vector
\* rhs_copy(rhs) can throw, before Swap.
CopyAssignFaults(this, rhs) ==
    IF rhs.size_ > Capacity(this) THEN CopyFaults(rhs) ELSE {}

VectorCopyAssignF(h, this, rhs, f) ==
    LET c == VectorCopyF(h, rhs, f) IN
    IF c.obs.exc # "none" THEN [this |-> this, heap |-> c.heap, obs |-> c.obs]
    ELSE
        LET s == VectorSwap(c.heap, this, c.this)
        IN  [this |-> s.this, heap |-> VectorDtor(s.heap, s.other), obs |-> c.obs]

\* ------------------------------------------------------------ state machine
\* last is the name of the call that ran last and self the array it ran on;
\* ret is, for a call that returns an iterator or a reference, the offset of
\* the element referred to, and NoRet for any other call.

\* A call that returned, with nothing recorded about its element operations.
NoObs == [exc |-> "none", at |-> "none", leaked |-> 0, moves |-> 0, copies |-> 0]

Called(op, v) == last' = op /\ self' = v /\ obs' = NoObs

Init ==
    /\ T \in ElemTypes
    /\ heap = [p \in Addr |-> FreeBlock]
    /\ vecs = [v \in Vecs |-> VectorDefault]
    /\ constructed = {}
    /\ last = "none"
    /\ self = NoVec
    /\ ret = NoRet
    /\ ub = "none"
    /\ pushed = <<>>
    /\ obs = NoObs

\* An operation on v alone: r is what the method's operator returned.
Update(v, r) ==
    /\ vecs' = [vecs EXCEPT ![v] = r.this]
    /\ heap' = r.heap
    /\ UNCHANGED <<T, constructed, ub>>

\* An operation on v and w, v # w.
Update2(v, w, r) ==
    /\ vecs' = [vecs EXCEPT ![v] = r.this, ![w] = r.other]
    /\ heap' = r.heap
    /\ UNCHANGED <<T, constructed, ub>>

\* A constructor: v's lifetime begins.
Begin(v) ==
    /\ ub = "none"
    /\ v \notin constructed
    /\ constructed' = constructed \cup {v}
    /\ UNCHANGED <<T, ub>>

\* A call on an object needs the object, and a program still running.
Alive(v) == ub = "none" /\ v \in constructed

Ctor(v) ==
    /\ Called("Vector", v)
    /\ Begin(v)
    /\ vecs' = [vecs EXCEPT ![v] = VectorDefault]
    /\ heap' = heap
    /\ ret' = NoRet

CtorSized(v, n) ==
    /\ Called("VectorSized", v)
    /\ Begin(v)
    /\ LET r == VectorSized(heap, n) IN
        /\ vecs' = [vecs EXCEPT ![v] = r.this]
        /\ heap' = r.heap
    /\ ret' = NoRet

CtorCopy(v, w) ==
    /\ Called("VectorCopy", v)
    /\ Begin(v)
    /\ w \in constructed
    /\ T.copyable
    /\ LET r == VectorCopy(heap, vecs[w]) IN
        /\ vecs' = [vecs EXCEPT ![v] = r.this]
        /\ heap' = r.heap
    /\ ret' = NoRet

CtorMove(v, w) ==
    /\ Called("VectorMove", v)
    /\ Begin(v)
    /\ w \in constructed
    /\ LET r == VectorMove(heap, vecs[w]) IN
        /\ vecs' = [vecs EXCEPT ![v] = r.this, ![w] = r.other]
        /\ heap' = r.heap
    /\ ret' = NoRet

Dtor(v) ==
    /\ Called("Dtor", v)
    /\ Alive(v)
    /\ heap' = VectorDtor(heap, vecs[v])
    /\ vecs' = [vecs EXCEPT ![v] = VectorDefault]
    /\ constructed' = constructed \ {v}
    /\ UNCHANGED <<T, ub>>
    /\ ret' = NoRet

Reserve(v, n) ==
    /\ Called("Reserve", v)
    /\ Alive(v)
    /\ Update(v, VectorReserve(T, heap, vecs[v], n))
    /\ ret' = NoRet

Resize(v, n) ==
    /\ Called("Resize", v)
    /\ Alive(v)
    /\ Update(v, VectorResize(T, heap, vecs[v], n))
    /\ ret' = NoRet

PushBackCopy(v, x) ==
    /\ Called("PushBack", v)
    /\ Alive(v)
    /\ T.copyable
    /\ Update(v, VectorPushBackCopy(T, heap, vecs[v], x))
    /\ ret' = NoRet

PushBackMove(v, x) ==
    /\ Called("PushBackMove", v)
    /\ Alive(v)
    /\ Update(v, VectorPushBackMove(T, heap, vecs[v], x))
    /\ ret' = NoRet

EmplaceBack(v, x) ==
    /\ Called("EmplaceBack", v)
    /\ Alive(v)
    /\ LET r == VectorEmplaceBack(T, heap, vecs[v], x) IN
        /\ Update(v, r)
        /\ ret' = r.ret

Emplace(v, k, x) ==
    /\ Called("Emplace", v)
    /\ Alive(v)
    /\ k <= Size(vecs[v])
    /\ LET r == VectorEmplace(T, heap, vecs[v], k, x) IN
        /\ Update(v, r)
        /\ ret' = r.ret

InsertCopy(v, k, x) ==
    /\ Called("Insert", v)
    /\ Alive(v)
    /\ T.copyable
    /\ k <= Size(vecs[v])
    /\ LET r == VectorInsertCopy(T, heap, vecs[v], k, x) IN
        /\ Update(v, r)
        /\ ret' = r.ret

InsertMove(v, k, x) ==
    /\ Called("InsertMove", v)
    /\ Alive(v)
    /\ k <= Size(vecs[v])
    /\ LET r == VectorInsertMove(T, heap, vecs[v], k, x) IN
        /\ Update(v, r)
        /\ ret' = r.ret

Erase(v, k) ==
    /\ Called("Erase", v)
    /\ Alive(v)
    /\ k < Size(vecs[v])
    /\ LET r == VectorErase(heap, vecs[v], k) IN
        /\ Update(v, r)
        /\ ret' = r.ret

PopBack(v) ==
    /\ Called("PopBack", v)
    /\ Alive(v)
    /\ Size(vecs[v]) > 0
    /\ Update(v, VectorPopBack(heap, vecs[v]))
    /\ ret' = NoRet

\* a = b.  With this == &rhs nothing happens.  g is drawn only where memory
\* holding no object is read; such a call has undefined behaviour, and either
\* returns, leaving what the stores it made leave, or the process is ended.
\* Nothing is modelled after undefined behaviour.
CopyAssign(v, w) ==
    /\ Called("CopyAssign", v)
    /\ Alive(v)
    /\ w \in constructed
    /\ T.copyable
    /\ ret' = NoRet
    /\ UNCHANGED <<T, constructed>>
    /\ IF v = w
       THEN UNCHANGED <<vecs, heap, ub>>
       ELSE IF ~VectorCopyAssign(heap, vecs[v], vecs[w], DefaultVal).ub
       THEN LET r == VectorCopyAssign(heap, vecs[v], vecs[w], DefaultVal) IN
                /\ vecs' = [vecs EXCEPT ![v] = r.this]
                /\ heap' = r.heap
                /\ ub' = "none"
       ELSE \/ \E g \in Val :
                LET r == VectorCopyAssign(heap, vecs[v], vecs[w], g) IN
                    /\ vecs' = [vecs EXCEPT ![v] = r.this]
                    /\ heap' = r.heap
                    /\ ub' = "returned"
            \/ /\ ub' = "aborted"
               /\ UNCHANGED <<vecs, heap>>

MoveAssign(v, w) ==
    /\ Called("MoveAssign", v)
    /\ Alive(v)
    /\ w \in constructed
    /\ ret' = NoRet
    /\ IF v = w
       THEN UNCHANGED <<T, vecs, heap, constructed, ub>>
       ELSE Update2(v, w, VectorMoveAssign(heap, vecs[v], vecs[w]))

Swap(v, w) ==
    /\ Called("Swap", v)
    /\ Alive(v)
    /\ w \in constructed
    /\ ret' = NoRet
    /\ IF v = w
       THEN UNCHANGED <<T, vecs, heap, constructed, ub>>
       ELSE Update2(v, w, VectorSwap(heap, vecs[v], vecs[w]))

\* -------------------------------------------------- calls that may throw
\* The same calls with the places they can throw: f says where this one does.
FaultStages ==
    {"alloc", "new", "transfer", "prefix", "suffix", "fill", "copy", "last",
     "shift", "assign"}

Faults == {NoFault} \cup {Fault(at, k) : at \in FaultStages, k \in 0 .. MaxCap - 1}

CalledF(op, v) == last' = op /\ self' = v

\* A call on v that returned or threw: r is what the method's operator gave.
UpdateF(v, r, f) ==
    /\ Update(v, r)
    /\ obs' = r.obs @@ [at |-> f.at]

\* A constructor that returned or threw: v's lifetime begins if it returned.
BeginF(v, r, f) ==
    /\ ub = "none"
    /\ v \notin constructed
    /\ constructed' = IF r.obs.exc = "none" THEN constructed \cup {v} ELSE constructed
    /\ vecs' = [vecs EXCEPT ![v] = r.this]
    /\ heap' = r.heap
    /\ obs' = r.obs @@ [at |-> f.at]
    /\ ret' = NoRet
    /\ UNCHANGED <<T, ub>>

CtorSizedF(v, n, f) ==
    /\ CalledF("VectorSized", v)
    /\ f \in SizedFaults(n)
    /\ BeginF(v, VectorSizedF(heap, n, f), f)

CtorCopyF(v, w, f) ==
    /\ CalledF("VectorCopy", v)
    /\ w \in constructed
    /\ v # w
    /\ T.copyable
    /\ f \in CopyFaults(vecs[w])
    /\ BeginF(v, VectorCopyF(heap, vecs[w], f), f)

ReserveF(v, n, f) ==
    /\ CalledF("Reserve", v)
    /\ Alive(v)
    /\ f \in ReserveFaults(T, vecs[v], n)
    /\ UpdateF(v, VectorReserveF(T, heap, vecs[v], n, f), f)
    /\ ret' = NoRet

ResizeF(v, n, f) ==
    /\ CalledF("Resize", v)
    /\ Alive(v)
    /\ f \in ResizeFaults(T, vecs[v], n)
    /\ UpdateF(v, VectorResizeF(T, heap, vecs[v], n, f), f)
    /\ ret' = NoRet

PushBackCopyF(v, x, f) ==
    /\ CalledF("PushBack", v)
    /\ Alive(v)
    /\ T.copyable
    /\ f \in AppendFaults(T, vecs[v], TRUE)
    /\ UpdateF(v, VectorPushBackCopyF(T, heap, vecs[v], x, f), f)
    /\ ret' = NoRet

PushBackMoveF(v, x, f) ==
    /\ CalledF("PushBackMove", v)
    /\ Alive(v)
    /\ f \in AppendFaults(T, vecs[v], MoveCanThrow(T))
    /\ UpdateF(v, VectorPushBackMoveF(T, heap, vecs[v], x, f), f)
    /\ ret' = NoRet

EmplaceBackF(v, x, f) ==
    /\ CalledF("EmplaceBack", v)
    /\ Alive(v)
    /\ f \in AppendFaults(T, vecs[v], TRUE)
    /\ UpdateF(v, VectorEmplaceBackF(T, heap, vecs[v], x, f), f)
    /\ ret' = IF f = NoFault THEN Size(vecs[v]) ELSE NoRet

EmplaceF(v, k, x, f) ==
    /\ CalledF("Emplace", v)
    /\ Alive(v)
    /\ k <= Size(vecs[v])
    /\ f \in EmplaceFaults(T, vecs[v], k, TRUE)
    /\ LET r == VectorEmplaceF(T, heap, vecs[v], k, x, f) IN
        /\ UpdateF(v, r, f)
        /\ ret' = r.ret

InsertCopyF(v, k, x, f) ==
    /\ CalledF("Insert", v)
    /\ Alive(v)
    /\ T.copyable
    /\ k <= Size(vecs[v])
    /\ f \in EmplaceFaults(T, vecs[v], k, TRUE)
    /\ LET r == VectorInsertCopyF(T, heap, vecs[v], k, x, f) IN
        /\ UpdateF(v, r, f)
        /\ ret' = r.ret

InsertMoveF(v, k, x, f) ==
    /\ CalledF("InsertMove", v)
    /\ Alive(v)
    /\ k <= Size(vecs[v])
    /\ f \in EmplaceFaults(T, vecs[v], k, MoveCanThrow(T))
    /\ LET r == VectorInsertMoveF(T, heap, vecs[v], k, x, f) IN
        /\ UpdateF(v, r, f)
        /\ ret' = r.ret

\* a = b where b is longer than a's capacity and the copy of b throws.
CopyAssignF(v, w, f) ==
    /\ CalledF("CopyAssign", v)
    /\ Alive(v)
    /\ w \in constructed
    /\ v # w
    /\ T.copyable
    /\ f \in CopyAssignFaults(vecs[v], vecs[w]) \ {NoFault}
    /\ UpdateF(v, VectorCopyAssignF(heap, vecs[v], vecs[w], f), f)
    /\ ret' = NoRet

\* a.PushBack(a[i]), a.Emplace(a.begin() + k, a[i]) and
\* a.Insert(a.begin() + k, a[i]): the argument is a reference to an element
\* of the array itself.
PushBackAlias(v, i) ==
    /\ Called("PushBackAlias", v)
    /\ Alive(v)
    /\ T.copyable
    /\ i < Size(vecs[v])
    /\ Update(v, VectorPushBackAlias(T, heap, vecs[v], i))
    /\ ret' = NoRet

EmplaceAlias(v, k, i) ==
    /\ Called("EmplaceAlias", v)
    /\ Alive(v)
    /\ T.copyable
    /\ k <= Size(vecs[v])
    /\ i < Size(vecs[v])
    /\ LET r == VectorEmplaceAlias(T, heap, vecs[v], k, i) IN
        /\ Update(v, r)
        /\ ret' = r.ret

InsertAlias(v, k, i) ==
    /\ Called("InsertAlias", v)
    /\ Alive(v)
    /\ T.copyable
    /\ k <= Size(vecs[v])
    /\ i < Size(vecs[v])
    /\ LET r == VectorInsertAlias(T, heap, vecs[v], k, i) IN
        /\ Update(v, r)
        /\ ret' = r.ret

\* v.Erase(v.Emplace(v.begin() + k, x)): Erase at the position Emplace
\* returned, as one call of the program.
VectorEmplaceErase(t, h, this, k, value) ==
    LET r == VectorEmplace(t, h, this, k, value)
    IN  VectorErase(r.heap, r.this, r.ret)

EmplaceErase(v, k, x) ==
    /\ Called("EmplaceErase", v)
    /\ Alive(v)
    /\ k <= Size(vecs[v])
    /\ LET r == VectorEmplaceErase(T, heap, vecs[v], k, x) IN
        /\ Update(v, r)
        /\ ret' = r.ret

\* The model stops growing an array at capacity cap.
CanGrow(v, cap) == Size(vecs[v]) < Capacity(vecs[v]) \/ GrowCap(vecs[v]) <= cap

\* Every call on v alone, with capacities up to cap.
Unary(v, cap) ==
    \/ Ctor(v)
    \/ \E n \in 0 .. cap : CtorSized(v, n)
    \/ Dtor(v)
    \/ \E n \in 0 .. cap : Reserve(v, n)
    \/ \E n \in 0 .. cap : Resize(v, n)
    \/ \E x \in Val : CanGrow(v, cap) /\ PushBackCopy(v, x)
    \/ \E x \in Val : CanGrow(v, cap) /\ PushBackMove(v, x)
    \/ \E x \in Val : CanGrow(v, cap) /\ EmplaceBack(v, x)
    \/ \E k \in 0 .. cap, x \in Val : CanGrow(v, cap) /\ Emplace(v, k, x)
    \/ \E k \in 0 .. cap, x \in Val : CanGrow(v, cap) /\ InsertCopy(v, k, x)
    \/ \E k \in 0 .. cap, x \in Val : CanGrow(v, cap) /\ InsertMove(v, k, x)
    \/ \E k \in 0 .. cap : Erase(v, k)
    \/ PopBack(v)

\* Every call on v that takes another array w.
Binary(v, w) ==
    \/ CtorCopy(v, w)
    \/ CtorMove(v, w)
    \/ CopyAssign(v, w)
    \/ MoveAssign(v, w)
    \/ Swap(v, w)

Next ==
    /\ \/ \E v \in Vecs : Unary(v, MaxCapPair)
       \/ \E v, w \in Vecs : Binary(v, w)
    /\ UNCHANGED pushed

\* The whole program: two arrays and every operation.
Spec == Init /\ [][Next]_vars

\* One array and the operations that take no other array.
NextSingle ==
    /\ \/ Unary("a", MaxCap)
       \/ \E k \in 0 .. MaxCap, x \in Val :
            CanGrow("a", MaxCap) /\ EmplaceErase("a", k, x)
    /\ UNCHANGED pushed

SpecSingle == Init /\ [][NextSingle]_vars

\* One array filled by PushBack, with the calls whose argument is an element
\* of the array.
NextAlias ==
    /\ \/ Ctor("a")
       \/ Dtor("a")
       \/ \E n \in 0 .. MaxCap : Reserve("a", n)
       \/ \E x \in Val : CanGrow("a", MaxCap) /\ PushBackCopy("a", x)
       \/ PopBack("a")
       \/ \E i \in 0 .. MaxCap - 1 : CanGrow("a", MaxCap) /\ PushBackAlias("a", i)
       \/ \E k \in 0 .. MaxCap, i \in 0 .. MaxCap - 1 :
            CanGrow("a", MaxCap) /\ EmplaceAlias("a", k, i)
       \/ \E k \in 0 .. MaxCap, i \in 0 .. MaxCap - 1 :
            CanGrow("a", MaxCap) /\ InsertAlias("a", k, i)
    /\ UNCHANGED pushed

SpecAlias == Init /\ [][NextAlias]_vars

\* An initially empty array under PushBack and PopBack only; pushed follows
\* the calls.
NextPushPop ==
    \/ Ctor("a") /\ pushed' = <<>>
    \/ \E x \in Val :
        CanGrow("a", MaxCap) /\ PushBackCopy("a", x) /\ pushed' = Append(pushed, x)
    \/ \E x \in Val :
        CanGrow("a", MaxCap) /\ PushBackMove("a", x) /\ pushed' = Append(pushed, x)
    \/ PopBack("a") /\ pushed' = SubSeq(pushed, 1, Len(pushed) - 1)

SpecPushPop == Init /\ [][NextPushPop]_vars

\* Every element type Vector accepts, by the same two traits: T need not be
\* copyable.
AllElemTypes == [nothrow_move : BOOLEAN, copyable : BOOLEAN]

InitF ==
    /\ T \in AllElemTypes
    /\ heap = [p \in Addr |-> FreeBlock]
    /\ vecs = [v \in Vecs |-> VectorDefault]
    /\ constructed = {}
    /\ last = "none"
    /\ self = NoVec
    /\ ret = NoRet
    /\ ub = "none"
    /\ pushed = <<>>
    /\ obs = NoObs

\* A call that returns grows the array to cap at most; one that throws may
\* be made in any state.
MayGrow(v, cap, f) == f = NoFault => CanGrow(v, cap)

\* Every call on v alone, returning (f.at = "none") or throwing at one of the
\* statements ats, with capacities up to cap.
UnaryF(v, cap, ats) ==
    \/ Ctor(v)
    \/ \E n \in 0 .. cap : \E f \in SizedFaults(n) : f.at \in ats /\ CtorSizedF(v, n, f)
    \/ Dtor(v)
    \/ \E n \in 0 .. cap : \E f \in ReserveFaults(T, vecs[v], n) : f.at \in ats /\ ReserveF(v, n, f)
    \/ \E n \in 0 .. cap : \E f \in ResizeFaults(T, vecs[v], n) : f.at \in ats /\ ResizeF(v, n, f)
    \/ \E x \in Val : \E f \in AppendFaults(T, vecs[v], TRUE) :
        f.at \in ats /\ MayGrow(v, cap, f) /\ PushBackCopyF(v, x, f)
    \/ \E x \in Val : \E f \in AppendFaults(T, vecs[v], MoveCanThrow(T)) :
        f.at \in ats /\ MayGrow(v, cap, f) /\ PushBackMoveF(v, x, f)
    \/ \E x \in Val : \E f \in AppendFaults(T, vecs[v], TRUE) :
        f.at \in ats /\ MayGrow(v, cap, f) /\ EmplaceBackF(v, x, f)
    \/ \E k \in 0 .. Size(vecs[v]), x \in Val :
        \E f \in EmplaceFaults(T, vecs[v], k, TRUE) :
            f.at \in ats /\ MayGrow(v, cap, f) /\ EmplaceF(v, k, x, f)
    \/ \E k \in 0 .. Size(vecs[v]), x \in Val :
        \E f \in EmplaceFaults(T, vecs[v], k, TRUE) :
            f.at \in ats /\ MayGrow(v, cap, f) /\ InsertCopyF(v, k, x, f)
    \/ \E k \in 0 .. Size(vecs[v]), x \in Val :
        \E f \in EmplaceFaults(T, vecs[v], k, MoveCanThrow(T)) :
            f.at \in ats /\ MayGrow(v, cap, f) /\ InsertMoveF(v, k, x, f)
    \/ \E k \in 0 .. cap : Erase(v, k)
    \/ PopBack(v)

\* Every call on v that takes another array w, returning or throwing.
BinaryF(v, w) ==
    \/ \E f \in CopyFaults(vecs[w]) : CtorCopyF(v, w, f)
    \/ CtorMove(v, w)
    \/ CopyAssign(v, w)
    \/ \E f \in CopyAssignFaults(vecs[v], vecs[w]) : CopyAssignF(v, w, f)
    \/ MoveAssign(v, w)
    \/ Swap(v, w)

\* One array, every element type, calls that return and calls that throw.
NextF ==
    /\ UnaryF("a", MaxCapF, FaultStages \cup {"none"})
    /\ UNCHANGED pushed

SpecF == InitF /\ [][NextF]_vars

\* The calls on v alone that deal with an allocation (PushBack(const T&)
\* stands for PushBack(T&&), Emplace for Insert), returning or throwing, and
\* PopBack.
UnaryPairF(v, cap) ==
    \/ Ctor(v)
    \/ \E n \in 0 .. cap : \E f \in SizedFaults(n) : CtorSizedF(v, n, f)
    \/ Dtor(v)
    \/ \E n \in 0 .. cap : \E f \in ReserveFaults(T, vecs[v], n) : ReserveF(v, n, f)
    \/ \E n \in 0 .. cap : \E f \in ResizeFaults(T, vecs[v], n) : ResizeF(v, n, f)
    \/ \E x \in Val : \E f \in AppendFaults(T, vecs[v], TRUE) :
        MayGrow(v, cap, f) /\ PushBackCopyF(v, x, f)
    \/ \E x \in Val : \E f \in AppendFaults(T, vecs[v], TRUE) :
        MayGrow(v, cap, f) /\ EmplaceBackF(v, x, f)
    \/ \E k \in 0 .. Size(vecs[v]), x \in Val :
        \E f \in EmplaceFaults(T, vecs[v], k, TRUE) :
            f.at \notin {"shift", "assign"} /\ MayGrow(v, cap, f) /\ EmplaceF(v, k, x, f)
    \/ PopBack(v)

\* One array, every element type, calls that return and calls that throw in
\* a transfer of the elements to a new allocation.
NextT ==
    /\ UnaryF("a", MaxCap, {"none", "transfer", "prefix", "suffix"})
    /\ UNCHANGED pushed

SpecT == InitF /\ [][NextT]_vars

\* Two arrays of copyable elements.  The throws left out are those of the
\* move assignments of the in-place Emplace, which run when no allocation is
\* made or released.
NextPairF ==
    /\ \/ \E v \in Vecs : UnaryPairF(v, MaxCapPair)
       \/ \E v, w \in Vecs : BinaryF(v, w)
    /\ UNCHANGED pushed

SpecPairF == Init /\ [][NextPairF]_vars

\* ---------------------------------------------------------------- claims
\* The elements an array holds: what indexing 0 .. Size() - 1 reads.
ElemsOf(h, this) == [i \in 1 .. this.size_ |-> Load(h, this.data_.buffer_, i - 1)]

\* The slots of the array's allocation, all of them.
SlotsOf(h, this) ==
    IF this.data_.buffer_ = NullPtr THEN <<>> ELSE h[this.data_.buffer_].slots

Max(a, b) == IF a >= b THEN a ELSE b

\* s with x put before offset k, and s without the element at offset k.
InsertAt(s, k, x) == SubSeq(s, 1, k) \o <<x>> \o SubSeq(s, k + 1, Len(s))

RemoveAt(s, k) == SubSeq(s, 1, k) \o SubSeq(s, k + 2, Len(s))

\* Slots [0, size_) hold objects and slots [size_, capacity) hold none, in
\* an allocation of capacity_ slots.
Represented(h, this) ==
    /\ 0 <= this.size_
    /\ this.size_ <= Capacity(this)
    /\ Len(SlotsOf(h, this)) = Capacity(this)
    /\ \A i \in 1 .. Capacity(this) :
        (SlotsOf(h, this)[i] # Raw) <=> (i <= this.size_)

\* C1: copy assignment a = b of distinct arrays that returns leaves a with
\* b's size and b's elements, every slot of a past them holding no object
\* (the elements of b land in exactly the slots [0, b.Size()), no gap), and
\* b unchanged.
C1_CopyAssignCopies ==
    [][\A v, w \in Vecs :
        (v # w /\ CopyAssign(v, w) /\ ub' # "aborted") =>
            /\ Size(vecs'[v]) = Size(vecs[w])
            /\ ElemsOf(heap', vecs'[v]) = ElemsOf(heap, vecs[w])
            /\ Represented(heap', vecs'[v])
            /\ vecs'[w] = vecs[w]
            /\ ElemsOf(heap', vecs'[w]) = ElemsOf(heap, vecs[w])]_vars

\* C2: after every operation that completed, every array has
\* 0 <= Size() <= Capacity(), an object in every slot of [0, Size()) and
\* none in any slot of [Size(), Capacity()).
C2_LiveSlots ==
    ub # "aborted" => \A v \in constructed : Represented(heap, vecs[v])

\* C3: under PushBack and PopBack on an initially empty array the elements
\* read by index are the values pushed and not popped, in the order pushed,
\* and Size() is their number.
C3_PushPopOrder ==
    "a" \in constructed =>
        /\ Size(vecs["a"]) = Len(pushed)
        /\ ElemsOf(heap, vecs["a"]) = pushed

\* Three values pushed and still there after a pop: the array went through
\* the capacities 1, 2 and 4.
C3_Witness ==
    /\ last = "PopBack"
    /\ Len(pushed) = 3
    /\ pushed[1] # pushed[2]
    /\ Capacity(vecs["a"]) = 4

\* C4: PushBack and EmplaceBack append the value; the elements before it keep
\* their values and places; the capacity becomes max(1, 2 * capacity) when
\* the array was full and stays what it was otherwise.
C4_PushBackGrowth ==
    [][\A x \in Val :
        (PushBackCopy("a", x) \/ PushBackMove("a", x) \/ EmplaceBack("a", x)) =>
            LET this == vecs["a"]
                that == vecs'["a"]
            IN  /\ Size(that) = Size(this) + 1
                /\ ElemsOf(heap', that) = Append(ElemsOf(heap, this), x)
                /\ Load(heap', that.data_.buffer_, Size(this)) = x
                /\ Capacity(that) = IF Size(this) = Capacity(this)
                                    THEN Max(1, 2 * Capacity(this))
                                    ELSE Capacity(this)]_vars

\* Three values in an array of capacity 4 after a push that found it full at
\* capacity 2.
C4_Witness ==
    /\ last \in {"PushBack", "PushBackMove", "EmplaceBack"}
    /\ Size(vecs["a"]) = 3
    /\ Capacity(vecs["a"]) = 4
    /\ ElemsOf(heap, vecs["a"])[1] # ElemsOf(heap, vecs["a"])[2]

\* C5: Reserve(n) never lowers the capacity and never changes the size or the
\* elements; with n <= Capacity() it changes nothing, the allocation
\* included; with n > Capacity() the capacity becomes n.
C5_ReserveFrame ==
    [][\A n \in 0 .. MaxCap :
        Reserve("a", n) =>
            LET this == vecs["a"]
                that == vecs'["a"]
            IN  /\ Capacity(that) >= Capacity(this)
                /\ Size(that) = Size(this)
                /\ ElemsOf(heap', that) = ElemsOf(heap, this)
                /\ n <= Capacity(this) => (that = this /\ heap' = heap)
                /\ n > Capacity(this) => Capacity(that) = n]_vars

\* Two different elements in an array Reserve left at capacity 3.
C5_Witness ==
    /\ last = "Reserve"
    /\ Size(vecs["a"]) = 2
    /\ Capacity(vecs["a"]) = 3
    /\ ElemsOf(heap, vecs["a"])[1] # ElemsOf(heap, vecs["a"])[2]

\* C6: Emplace and Insert at offset k turn the elements s into s[0..k), the
\* new element, s[k..Size()); Size() grows by one; the iterator returned is
\* begin() + k and refers to the new element.
C6_EmplaceInserts ==
    [][\A k \in 0 .. MaxCap, x \in Val :
        (Emplace("a", k, x) \/ InsertCopy("a", k, x) \/ InsertMove("a", k, x)) =>
            LET this == vecs["a"]
                that == vecs'["a"]
            IN  /\ ElemsOf(heap', that) = InsertAt(ElemsOf(heap, this), k, x)
                /\ Size(that) = Size(this) + 1
                /\ ret' = k
                /\ Load(heap', that.data_.buffer_, ret') = x]_vars

\* An Emplace before the first of two elements with room to spare: capacity 3
\* is no capacity growth produces, so the elements were shifted in place.
C6_Witness ==
    /\ last \in {"Emplace", "Insert", "InsertMove"}
    /\ ret = 0
    /\ Size(vecs["a"]) = 3
    /\ Capacity(vecs["a"]) = 3
    /\ ElemsOf(heap, vecs["a"])[2] # ElemsOf(heap, vecs["a"])[3]

\* C7: Erase at offset k leaves s without s[k], the others in their order;
\* Size() drops by one and Capacity() stays; the iterator returned is
\* begin() + k, which is end() when the last element went and else refers to
\* what was s[k + 1].
C7_EraseRemoves ==
    [][\A k \in 0 .. MaxCap :
        Erase("a", k) =>
            LET this == vecs["a"]
                that == vecs'["a"]
                s    == ElemsOf(heap, this)
            IN  /\ ElemsOf(heap', that) = RemoveAt(s, k)
                /\ Size(that) = Size(this) - 1
                /\ Capacity(that) = Capacity(this)
                /\ that.data_ = this.data_
                /\ ret' = k
                /\ k = Size(this) - 1 => ret' = Size(that)
                /\ k < Size(this) - 1 =>
                    Load(heap', that.data_.buffer_, ret') = s[k + 2]]_vars

\* An Erase of the first of three elements, the two left differing.
C7_Witness ==
    /\ last = "Erase"
    /\ ret = 0
    /\ Size(vecs["a"]) = 2
    /\ ElemsOf(heap, vecs["a"])[1] # ElemsOf(heap, vecs["a"])[2]

\* C8: Emplace at offset k followed by Erase at the position Emplace returned
\* restores the size and the elements; the capacity does not shrink.
C8_EmplaceEraseRoundTrip ==
    [][\A k \in 0 .. MaxCap, x \in Val :
        EmplaceErase("a", k, x) =>
            LET this == vecs["a"]
                that == vecs'["a"]
            IN  /\ Size(that) = Size(this)
                /\ ElemsOf(heap', that) = ElemsOf(heap, this)
                /\ Capacity(that) >= Capacity(this)
                /\ Represented(heap', that)
                /\ ret' = k]_vars

\* A round trip in the middle of two different elements; capacity 4 with two
\* elements is what the reallocating Emplace of a full array of 2 leaves.
C8_Witness ==
    /\ last = "EmplaceErase"
    /\ ret = 1
    /\ Size(vecs["a"]) = 2
    /\ Capacity(vecs["a"]) = 4
    /\ ElemsOf(heap, vecs["a"])[1] # ElemsOf(heap, vecs["a"])[2]

\* Array w is what it was: the same object state, the same slots behind it.
Untouched(w) ==
    /\ vecs'[w] = vecs[w]
    /\ SlotsOf(heap', vecs'[w]) = SlotsOf(heap, vecs[w])
    /\ (w \in constructed') <=> (w \in constructed)

\* No allocation is owned by two arrays, and every array's block is allocated.
Exclusive(h, vs, alive) ==
    \A v \in alive :
        vs[v].data_.buffer_ # NullPtr =>
            /\ h[vs[v].data_.buffer_].alloc
            /\ \A w \in alive \ {v} : vs[w].data_.buffer_ # vs[v].data_.buffer_

\* The calls that take one array, and copy assignment, which takes a second
\* one to read.
MutatorsOfOne ==
    {"Vector", "VectorSized", "Dtor", "Reserve", "Resize", "PushBack",
     "PushBackMove", "EmplaceBack", "Emplace", "Insert", "InsertMove", "Erase",
     "PopBack", "CopyAssign"}

\* Such a call, when its behaviour is defined, leaves every array but the
\* one it was called on as it was.
Isolated ==
    (ub' = "none" /\ last' \in MutatorsOfOne) =>
        \A w \in Vecs \ {self'} : Untouched(w)

\* C9: copy construction of v from w gives v the size and the elements of w
\* and capacity w.Size(), in an allocation of its own, and leaves w as it was;
\* from then on no two arrays share an allocation and a call that mutates one
\* array leaves the other as it was.
C9_CopyConstruct ==
    [][/\ \A v, w \in Vecs :
            CtorCopy(v, w) =>
                /\ Size(vecs'[v]) = Size(vecs[w])
                /\ Capacity(vecs'[v]) = Size(vecs[w])
                /\ ElemsOf(heap', vecs'[v]) = ElemsOf(heap, vecs[w])
                /\ Represented(heap', vecs'[v])
                /\ Untouched(w)
                /\ \/ vecs'[v].data_.buffer_ = NullPtr
                   \/ vecs'[v].data_.buffer_ # vecs'[w].data_.buffer_
       /\ Exclusive(heap', vecs', constructed')
       /\ Isolated]_vars

\* A copy, of capacity 1, beside its source of one element and capacity 2.
C9_Witness ==
    /\ last = "VectorCopy"
    /\ \E w \in constructed :
        /\ self # w
        /\ self \in constructed
        /\ Capacity(vecs[w]) = 2
        /\ Size(vecs[w]) = 1
        /\ Capacity(vecs[self]) = 1
        /\ ElemsOf(heap, vecs[self]) = ElemsOf(heap, vecs[w])
        /\ ElemsOf(heap, vecs[w])[1] # DefaultVal

\* C10: move construction of v from w gives v the allocation, the capacity and
\* the size w had, with no slot of the heap changed (no element constructed,
\* copied or destroyed), and leaves w with size 0 and no allocation; destroying
\* w, or any other call on w, then leaves v as it was.
C10_MoveConstruct ==
    [][/\ \A v, w \in Vecs :
            CtorMove(v, w) =>
                /\ vecs'[v] = vecs[w]
                /\ heap' = heap
                /\ ElemsOf(heap', vecs'[v]) = ElemsOf(heap, vecs[w])
                /\ Size(vecs'[w]) = 0
                /\ vecs'[w].data_.buffer_ = NullPtr
                /\ Capacity(vecs'[w]) = 0
                /\ Represented(heap', vecs'[w])
                /\ w \in constructed'
       /\ \A w \in Vecs : Dtor(w) => \A v \in Vecs \ {w} : Untouched(v)
       /\ Exclusive(heap', vecs', constructed')
       /\ Isolated]_vars

\* An array holding one element in a block of capacity 2 it was given by
\* move construction, beside the emptied source.
C10_Witness ==
    /\ last = "VectorMove"
    /\ \E w \in constructed :
        /\ self # w
        /\ self \in constructed
        /\ Capacity(vecs[self]) = 2
        /\ Size(vecs[self]) = 1
        /\ ElemsOf(heap, vecs[self])[1] # DefaultVal
        /\ vecs[w] = VectorDefault

\* The last call was a growth-triggering call of array "a" that threw in an
\* element operation: Reserve or Resize beyond the capacity (a Resize threw
\* in the transfer, or in T() after the capacity grew), PushBack, EmplaceBack
\* or Emplace of a full array.
GrowthThrew ==
    /\ obs'.exc = "T"
    /\ self' = "a"
    /\ \/ last' = "Reserve"
       \/ /\ last' = "Resize"
          /\ obs'.at = "transfer" \/ Capacity(vecs'["a"]) > Capacity(vecs["a"])
       \/ /\ last' \in {"PushBack", "PushBackMove", "EmplaceBack", "Emplace"}
          /\ Size(vecs["a"]) = Capacity(vecs["a"])

C12_AllocFailureFirst ==
    [][obs'.exc = "bad_alloc" =>
            /\ vecs' = vecs
            /\ heap' = heap
            /\ constructed' = constructed
            /\ obs'.moves = 0 /\ obs'.copies = 0 /\ obs'.leaked = 0]_vars

\* a = b threw bad_alloc with b longer than a's capacity: a still holds its
\* element.
C12_Witness ==
    /\ last = "CopyAssign"
    /\ obs.exc = "bad_alloc"
    /\ self = "a"
    /\ {"a", "b"} \subseteq constructed
    /\ Size(vecs["a"]) = 1
    /\ Capacity(vecs["a"]) = 1
    /\ Size(vecs["b"]) = 2
    /\ ElemsOf(heap, vecs["a"])[1] # DefaultVal
    /\ Represented(heap, vecs["a"])

\* The last call transferred elements of array "a" to a new allocation, or
\* threw while it did.
Transferred ==
    /\ self' = "a"
    /\ last' \in {"Reserve", "Resize", "PushBack", "PushBackMove", "EmplaceBack",
                  "Emplace", "Insert", "InsertMove"}
    /\ obs'.moves + obs'.copies > 0

\* C13: a call that reallocates transfers all Size() elements; every transfer,
\* in Reserve, PushBack, EmplaceBack and Emplace, before and after the new
\* element, is by move construction when T's move constructor cannot throw
\* or T cannot be copied, and by copy construction otherwise.  A transfer
\* that throws leaves the elements as they were when it copied and the first
\* one moved from when it moved.
C13_MoveOrCopy ==
    [][/\ (self' = "a" /\ obs'.exc = "none"
            /\ vecs'["a"].data_.buffer_ # vecs["a"].data_.buffer_
            /\ last' \notin {"Vector", "VectorSized", "Dtor"}) =>
                obs'.moves + obs'.copies = Size(vecs["a"])
       /\ Transferred =>
            /\ (T.nothrow_move \/ ~T.copyable) => obs'.copies = 0
            /\ (~T.nothrow_move /\ T.copyable) => obs'.moves = 0
            /\ (obs'.exc = "T" /\ obs'.copies > 0) =>
                ElemsOf(heap', vecs'["a"]) = ElemsOf(heap, vecs["a"])
            /\ (obs'.exc = "T" /\ obs'.moves > 0) =>
                ElemsOf(heap', vecs'["a"])[1] = Moved]_vars

\* An Emplace in the middle of a full array of two elements that cannot be
\* copied: one moved before the new element and one after it.
C13_Witness ==
    /\ last = "Emplace"
    /\ obs.exc = "none"
    /\ ret = 1
    /\ obs.moves = 2
    /\ obs.copies = 0
    /\ ~T.copyable
    /\ ~T.nothrow_move
    /\ Size(vecs["a"]) = 3
    /\ Capacity(vecs["a"]) = 4

\* C14: whatever calls returned or threw, every allocation belongs to exactly
\* one live array and has the capacity that array records, no block was
\* released twice or while an array still held it, and a block that no live
\* array holds is released; with no array alive no allocation is left.
C14_ExclusiveOwnership ==
    /\ Exclusive(heap, vecs, constructed)
    /\ \A p \in Addr :
        /\ heap[p].alloc <=> \E v \in constructed : vecs[v].data_.buffer_ = p
        /\ heap[p] # DoubleFreed
    /\ \A v \in constructed :
        Len(SlotsOf(heap, vecs[v])) = Capacity(vecs[v])
    /\ constructed = {} => \A p \in Addr : heap[p] = FreeBlock

\* a = b threw in the copy of b's second element: the block of the copy is
\* gone, and a and b hold the only two allocations.
C14_Witness ==
    /\ last = "CopyAssign"
    /\ obs.exc = "T"
    /\ obs.copies = 1
    /\ constructed = {"a", "b"}
    /\ Capacity(vecs["a"]) = 1
    /\ Capacity(vecs["b"]) = 2
    /\ Cardinality({p \in Addr : heap[p].alloc}) = 2

\* C15: Resize(n) leaves Size() = n.  With n < Size() the first n elements
\* keep their values, the others are destroyed and the capacity and the
\* allocation stay.  With n >= Size() the elements keep their values and
\* order, the positions from the old size to n hold value-initialised
\* elements, and the capacity is n if n exceeded it and what it was if not.
C15_Resize ==
    [][\A n \in 0 .. MaxCap :
        Resize("a", n) =>
            LET this == vecs["a"]
                that == vecs'["a"]
                s    == ElemsOf(heap, this)
                s2   == ElemsOf(heap', that)
            IN  /\ Size(that) = n
                /\ Represented(heap', that)
                /\ n < Size(this) =>
                    /\ s2 = SubSeq(s, 1, n)
                    /\ that.data_ = this.data_
                /\ n >= Size(this) =>
                    /\ SubSeq(s2, 1, Size(this)) = s
                    /\ \A i \in Size(this) + 1 .. n : s2[i] = DefaultVal
                    /\ Capacity(that) =
                        IF n > Capacity(this) THEN n ELSE Capacity(this)]_vars

\* A Resize to 3 that reallocated an array whose first element is not a
\* default one.
C15_Witness ==
    /\ last = "Resize"
    /\ Size(vecs["a"]) = 3
    /\ Capacity(vecs["a"]) = 3
    /\ ElemsOf(heap, vecs["a"])[1] # DefaultVal
    /\ ElemsOf(heap, vecs["a"])[3] = DefaultVal

\* The last call was an Emplace or Insert on the full array "a" that did not
\* take the end() path (lines 277-280), whose only throwing transfer is the
\* one of EmplaceBack.
EmplaceGrew ==
    /\ self' = "a"
    /\ last' \in {"Emplace", "Insert", "InsertMove"}
    /\ Size(vecs["a"]) = Capacity(vecs["a"])
    /\ obs'.at # "transfer"

\* C16: in Emplace with growth, if the construction of the new element throws
\* nothing else was constructed; if a transfer throws, no object is left in
\* the new buffer when it is released; in either case the array keeps its
\* allocation and its size and none of its elements is destroyed; only when
\* both transfers succeeded are the old elements destroyed and the buffers
\* swapped.
C16_EmplaceStaged ==
    [][EmplaceGrew =>
        LET this == vecs["a"]
            that == vecs'["a"]
            old  == SlotsOf(heap, this)
            new  == SlotsOf(heap', that)
        IN  /\ obs'.at = "new" =>
                /\ obs'.moves + obs'.copies = 0
                /\ heap' = heap
            /\ obs'.at \in {"prefix", "suffix"} =>
                /\ obs'.exc = "T"
                /\ obs'.moves + obs'.copies < Size(this)
            /\ obs'.exc # "none" =>
                /\ obs'.leaked = 0
                /\ that = this
                /\ \A i \in 1 .. Len(old) : (new[i] = Raw) <=> (old[i] = Raw)
                /\ \A p \in Addr : heap'[p].alloc <=> heap[p].alloc
            /\ obs'.exc = "none" =>
                /\ that.data_.buffer_ # this.data_.buffer_
                /\ Size(that) = Size(this) + 1
                /\ obs'.moves + obs'.copies = Size(this)]_vars

\* An Emplace after the first of three elements threw at the last one: the
\* prefix and one element of the suffix had been transferred, and nothing
\* was left in the buffer released.
C16_Witness ==
    /\ last = "Emplace"
    /\ obs.exc = "T"
    /\ obs.at = "suffix"
    /\ obs.moves + obs.copies = 2
    /\ obs.leaked = 0
    /\ Size(vecs["a"]) = 3
    /\ Capacity(vecs["a"]) = 3

\* C17: no operation constructs, reads, assigns to or destroys an element at
\* an offset past the last slot of the buffer it addresses, nor reads an
\* element of a source array at an offset >= the source's Size(): no call
\* had the undefined behaviour of an access outside the constructed range,
\* copy assignment with Size() < rhs.Size() <= Capacity() included.
C17_AccessInRange == ub = "none"

\* C18: when PushBack or EmplaceBack on a full array throws in the transfer
\* of the existing elements, the new element constructed at slot Size() of
\* the new buffer is destroyed before the buffer is released: no object is
\* alive in the storage released.
C18_AppendUnwinds ==
    [][(/\ self' = "a"
        /\ last' \in {"PushBack", "PushBackMove", "EmplaceBack"}
        /\ obs'.at = "transfer") =>
            /\ obs'.exc = "T"
            /\ obs'.leaked = 0]_vars

\* C20: when Emplace on the in-place path throws in a move assignment, while
\* shifting [position, end - 1) or while assigning the temporary into
\* position, no object is left at a position >= Size(): the element
\* move-constructed into the slot at offset Size() is counted in Size() or
\* destroyed.
C20_InPlaceUnwinds ==
    [][(/\ self' = "a"
        /\ last' \in {"Emplace", "Insert", "InsertMove"}
        /\ obs'.at \in {"shift", "assign"}
        /\ Represented(heap, vecs["a"])) =>
            /\ obs'.exc = "T"
            /\ \A i \in Size(vecs'["a"]) + 1 .. Capacity(vecs'["a"]) :
                   SlotsOf(heap', vecs'["a"])[i] = Raw]_vars

\* C19: when the argument of PushBack(const T&), Insert(pos, const T&) or
\* Emplace is the element a[i] of the array itself, the element appended or
\* inserted has the value a[i] had before the call and the other elements
\* keep their values and order, with and without reallocation.
C19_AliasedArgument ==
    [][LET old == ElemsOf(heap, vecs["a"])
           new == ElemsOf(heap', vecs'["a"])
       IN  /\ \A i \in 0 .. MaxCap - 1 :
                PushBackAlias("a", i) => new = Append(old, old[i + 1])
           /\ \A k \in 0 .. MaxCap, i \in 0 .. MaxCap - 1 :
                (EmplaceAlias("a", k, i) \/ InsertAlias("a", k, i)) =>
                    /\ new = InsertAt(old, k, old[i + 1])
                    /\ ret' = k]_vars

\* a.Insert(a.begin(), a[1]) on the full array <<0, 1>> of a type that is
\* moved on reallocation.
C19_Witness ==
    /\ last = "InsertAlias"
    /\ T.nothrow_move
    /\ Capacity(vecs["a"]) = 4
    /\ ElemsOf(heap, vecs["a"]) = <<1, 0, 1>>
====
